---- MODULE Spec2Model ----
(***************************************************************************)
(* grun: a wrapper of the gtk application startup process.                 *)
(*                                                                         *)
(* The model follows one App descriptor through Run: Init creates the      *)
(* gtk.Application and connects the callbacks, the toolkit emits startup   *)
(* (OnInit), activate (Exec of OnRun and of the Run arguments), runs its   *)
(* main loop and emits shutdown (OnStop); Run then resolves the exit code. *)
(* Exec is followed item by item with an explicit stack of Exec frames,    *)
(* so that the ExitAfter timer goroutine can interleave with it.           *)
(***************************************************************************)
EXTENDS Integers, Sequences, FiniteSets, TLC

\* ------------------------------------------------------------------ bounds

MaxCalls == 3      \* Params and Actions handed to the descriptor in all, nested ones included
MaxAppends == 2    \* calls of Errors.Append on one error list
MaxMore == 2       \* errors given to one call of Errors.Append
MaxParams == 2     \* Params given to one constructor

Keys == {"a", "b"}             \* names usable as map[string]interface{} keys
Widgets == {"w1"}              \* non-nil widgets an Action can return
ErrMsgs == {<<"stop">>}        \* messages of the errors the Actions return
ExitCodes == {-1, 0, 42}       \* codes given to Exit
TimerCodes == {1}              \* codes given to ExitAfter
GtkCodes == {0, 2}             \* values gtk's Application.Run returns from its loop

\* ------------------------------------------------------------------ values

NilW == "nil"                  \* the nil gtk.Widgetter
Label == "label"               \* a gtk.NewLabel widget (never nil)
NilWin == 0                    \* the nil *gtk.ApplicationWindow
NilApp == "nil"                \* the nil *gtk.Application
TheApp == "app"                \* the gtk.Application Init creates
NoKey == ""                    \* a frame that is no map entry

\* An error value is <<>> (nil) or <<msg>>; a message is a sequence of tokens,
\* so that an error with an empty message is not the nil error.
NilErr == <<>>
NewError(msg) == <<msg>>
Msg(e) == e[1]

FmtErrExec(name, msg) == <<"grun.Exec(", name, "): ">> \o msg
FmtErrTypeUnknown(typ) == <<"grun exec func type unknown: ", typ>>

\* fmt.Errorf(FmtErrExec, name, e)
ErrorfExec(name, e) == NewError(FmtErrExec(name, Msg(e)))

\* ------------------------------------------------------------------ Errors

\* IsError that needs more than one error.
IsError_MoreThanOne(list) == Len(list) > 1

\* Errors.IsError
IsError(list) == Len(list) > 0

\* ErrorsAppend with the new errors put first.
ErrorsAppend_Prepend(list, more) == more \o list

\* Errors.Append: *e = append(*e, more...)
ErrorsAppend(list, more) == list \o more

RECURSIVE Join(_)
\* strings.Join(list, "\n")
Join(list) ==
  IF Len(list) = 0 THEN <<>>
  ELSE IF Len(list) = 1 THEN list[1]
  ELSE list[1] \o <<"\n">> \o Join(Tail(list))

\* Errors.Error
ErrorsError(list) ==
  IF Len(list) = 0 THEN <<>>
  ELSE Join([i \in 1..Len(list) |-> Msg(list[i])])

\* Errors.ToError
ToError(list) == NewError(ErrorsError(list))

\* ------------------------------------------------------------------- state

VARIABLES
  pc,        \* where the caller of Run is: idle, init, started, exec, loop, exited, ret309, returned
  app,       \* the App descriptor: Headless, OnInit, OnRun, OnStop (set or not), App, Win, exitCode
  gtk,       \* the gtk.Application of this run: quit requested, holds an open window
  win,       \* the window app.Win points to: child, shown, open
  timers,    \* the time.AfterFunc timers of ExitAfter still to run: code, step
  ntimers,   \* ExitAfter calls so far
  left,      \* how many more Params and Actions the bound allows
  calls,     \* Run's calls after OnRun is put first: where each item comes from
  stack,     \* the Exec calls in progress, innermost last
  pend,      \* the widget Action whose window exists and whose call() is still to run
  e,         \* Run's var e error
  exitGtk,   \* the value app.App.Run returned
  result,    \* the value Run returned
  panicked,  \* a goroutine dereferenced a nil *gtk.Application
  rets,      \* history: the Exec calls that returned in the last step
  events,    \* history: callbacks of this run in the order they ran
  nw,        \* history: NewWindow calls of this run
  packed,    \* history: what Pack did in the last step: none, dropped, window, shown, closed
  atActivate, \* history: Headless and Win when activate was emitted
  exits,     \* history: the codes given to the Exit Actions invoked in this run
  got,       \* history: the error and the Errors the Action invoked in the last step returned
  errs,      \* an error list of the caller: var errs Errors
  given,     \* history: the arguments of each Append on errs
  made       \* history: the constructor call that made the descriptor

lib == <<errs, given, made>>

vars == <<pc, app, gtk, win, timers, ntimers, left, calls, stack, pend, e, exitGtk,
          result, panicked, rets, events, nw, packed, atActivate, exits, got, lib>>

NoWindow == [child |-> NilW, shown |-> FALSE, open |-> FALSE]

\* ------------------------------------------------------------------ Actions

WidgetKinds == {"fW", "fAW", "chan"}            \* func() gtk.Widgetter, func(*App) gtk.Widgetter, chan gtk.Widgetter
WidgetErrKinds == {"fWE", "fAWE"}               \* func() (gtk.Widgetter, error), func(*App) (gtk.Widgetter, error)
StringKinds == {"str", "fStr", "fAStr"}         \* string, func() string, func(*App) string
ErrorKinds == {"fE", "fAE"}                     \* func() error, func(*App) error
PackKinds == WidgetKinds \cup WidgetErrKinds \cup StringKinds \cup {"fAWEs"}
UnknownTypes == {"<nil>", "func() (gtk.Widgetter, grun.Errors)"}
ErrLists == {<<>>} \cup {<<NewError(m)>> : m \in ErrMsgs}
              \cup {<<NewError(<<"stop">>), NewError(<<"fail">>)>>}

NoItem == [kind |-> "none", w |-> NilW, err |-> NilErr, errs |-> <<>>, sub |-> "",
           code |-> 0, n |-> 0, keys |-> {}, typ |-> ""]

\* The Actions Exec can meet, each with what it does when it is called.
Leaves ==
       { [NoItem EXCEPT !.kind = k, !.w = w] : k \in WidgetKinds, w \in Widgets \cup {NilW} }
  \cup { [NoItem EXCEPT !.kind = k, !.w = w, !.err = x] :
           k \in WidgetErrKinds, w \in Widgets \cup {NilW},
           x \in {NilErr} \cup {NewError(m) : m \in ErrMsgs} }
  \cup { [NoItem EXCEPT !.kind = "fAWEs", !.w = w, !.errs = l] :
           w \in Widgets \cup {NilW}, l \in ErrLists }
  \cup { [NoItem EXCEPT !.kind = k, !.w = Label] : k \in StringKinds }
  \cup { [NoItem EXCEPT !.kind = k] : k \in {"f"} }
  \cup { [NoItem EXCEPT !.kind = k, !.err = x] :
           k \in ErrorKinds, x \in {NilErr} \cup {NewError(m) : m \in ErrMsgs} }
  \cup { [NoItem EXCEPT !.kind = "Param", !.sub = "SetHeadless"] }
  \cup { [NoItem EXCEPT !.kind = "Param", !.sub = "ExitAfter", !.code = c] : c \in TimerCodes }
  \cup { [NoItem EXCEPT !.kind = k, !.sub = "Exit", !.code = c] :
           k \in {"fA", "ffA"}, c \in ExitCodes }
  \cup { [NoItem EXCEPT !.kind = "unknown", !.typ = t] : t \in UnknownTypes }

Lists == { [NoItem EXCEPT !.kind = "list", !.n = n] : n \in 0..MaxCalls }
Maps == { [NoItem EXCEPT !.kind = "map", !.keys = K] : K \in SUBSET Keys }

\* The error an Action returns, as the Action itself gives it (nil for the
\* shapes that return no error value).
Returned(item) ==
  IF item.kind \in WidgetErrKinds \cup ErrorKinds THEN item.err ELSE NilErr

\* The error Exec is to report for an item: the one its Action returns, or
\* the type-unknown error for a shape Exec does not handle.
Yield(item) ==
  IF item.kind = "unknown" THEN NewError(FmtErrTypeUnknown(item.typ)) ELSE Returned(item)

\* --------------------------------------------------------- window and Pack

\* The program state the Actions act on, as one value.
World == [app |-> app, gtk |-> gtk, win |-> win, timers |-> timers,
          ntimers |-> ntimers, nw |-> nw]

\* App.NewWindow, and Pack's app.Win = app.NewWindow(): gtk attaches the new
\* window to the application, which stays alive while the window is open.
NewWindow(s) ==
  [s EXCEPT !.gtk.held = TRUE, !.nw = @ + 1,
            !.win = [child |-> NilW, shown |-> FALSE, open |-> TRUE],
            !.app.Win = s.nw + 1]
\* PackDrops without the test of app.Win.
PackDrops_HeadlessOnly(a) == a.Headless

\* PackDrops without the test of Headless.
PackDrops_WindowOnly(a) == a.Win # NilWin

\* Nothing returned.
NoGot == [err |-> NilErr, errs |-> <<>>]

\* What an Action returns beside its widget.
Got(item) == [err |-> Returned(item), errs |-> item.errs]

\* Pack's guard: the widget is dropped when Headless or when a window exists.
PackDrops(a) == a.Headless \/ a.Win # NilWin

\* PackWidget that shows the window whatever the widget.
PackWidget_ShowsNil(s, w) == [s EXCEPT !.win.child = w, !.win.shown = TRUE]

\* Pack after call(): a nil widget closes the window and forgets it, another
\* one becomes the window's child and the window is shown.
PackWidget(s, w) ==
  IF w = NilW
  THEN [s EXCEPT !.win = NoWindow, !.gtk.held = FALSE, !.app.Win = NilWin]
  ELSE [s EXCEPT !.win.child = w, !.win.shown = TRUE]

\* What the closure Exec hands to Pack returns.
Packed(item) ==
  CASE item.kind \in WidgetKinds -> item.w
    [] item.kind \in WidgetErrKinds -> IF item.err # NilErr THEN NilW ELSE item.w
    [] item.kind = "fAWEs" -> IF IsError(item.errs) THEN NilW ELSE item.w
    [] OTHER -> Label

\* ------------------------------------------------------------ Exit, timers

\* Exit that keeps a code already stored.
Exit_KeepsFirst(s, exitCode) ==
  [s EXCEPT !.app.exitCode = IF @ # 0 THEN @ ELSE exitCode, !.gtk.quit = TRUE]

\* App.Exit on the thread of the loop: stores the code and quits the application.
Exit(s, exitCode) == [s EXCEPT !.app.exitCode = exitCode, !.gtk.quit = TRUE]

\* ExitAfter: starts a timer whose callback calls app.Exit(exitCode).
ExitAfter(s, exitCode) ==
  [s EXCEPT !.timers = @ \cup {[id |-> s.ntimers + 1, code |-> exitCode, step |-> "armed"]},
            !.ntimers = @ + 1]

\* SetHeadless
SetHeadless(s) == [s EXCEPT !.app.Headless = TRUE]

\* -------------------------------------------------------------------- Exec

\* One case of Exec's switch for an item that is no list and no map, Pack's
\* call() included: the state after it, Exec's e, and whether the case returns
\* (and what) without reaching the test of e.
Outcome(s, e1, ret, val) == [s |-> s, e |-> e1, ret |-> ret, val |-> val]

\* case func(app *App) (gtk.Widgetter, Errors): the errs tested after Pack is
\* the one declared before it; the closure declares its own.
ErrorsCase(s, item) ==
  LET outer == <<>>
  IN  IF IsError(outer) THEN Outcome(s, NilErr, TRUE, ToError(outer))
      ELSE Outcome(s, NilErr, FALSE, NilErr)

\* The cases that go through Pack, once Pack has returned in state s.
AfterPack(s, item) ==
  CASE item.kind \in WidgetErrKinds -> Outcome(s, item.err, FALSE, NilErr)
    [] item.kind = "fAWEs" -> ErrorsCase(s, item)
    [] OTHER -> Outcome(s, NilErr, FALSE, NilErr)

\* Dropped without the call of the Action.
Dropped_NotCalled(s, item) == Outcome(s, NilErr, FALSE, NilErr)

\* A case that goes through Pack when Pack drops the widget: call() runs, its
\* widget is not used.
Dropped(s, item) == AfterPack(s, item)

\* case func() error, case func(app *App) error: return call()
ErrorCase(s, item) == Outcome(s, NilErr, TRUE, item.err)

\* Headless with a default case that reports nothing.
Headless_UnknownIgnored(s, item) ==
  CASE item.kind \in ErrorKinds -> ErrorCase(s, item)
    [] item.kind = "Param" /\ item.sub = "SetHeadless" ->
         Outcome(SetHeadless(s), NilErr, FALSE, NilErr)
    [] item.kind = "Param" /\ item.sub = "ExitAfter" ->
         Outcome(ExitAfter(s, item.code), NilErr, FALSE, NilErr)
    [] item.kind \in {"fA", "ffA"} /\ item.sub = "Exit" ->
         Outcome(Exit(s, item.code), NilErr, FALSE, NilErr)
    [] OTHER -> Outcome(s, NilErr, FALSE, NilErr)

\* The headless cases and the default case.
Headless(s, item) ==
  CASE item.kind \in ErrorKinds -> ErrorCase(s, item)
    [] item.kind = "Param" /\ item.sub = "SetHeadless" ->
         Outcome(SetHeadless(s), NilErr, FALSE, NilErr)
    [] item.kind = "Param" /\ item.sub = "ExitAfter" ->
         Outcome(ExitAfter(s, item.code), NilErr, FALSE, NilErr)
    [] item.kind \in {"fA", "ffA"} /\ item.sub = "Exit" ->
         Outcome(Exit(s, item.code), NilErr, FALSE, NilErr)
    [] item.kind = "unknown" ->
         Outcome(s, NewError(FmtErrTypeUnknown(item.typ)), FALSE, NilErr)
    [] OTHER -> Outcome(s, NilErr, FALSE, NilErr)

\* An Exec call in progress: a list with n items of which i are dispatched, or
\* a map with the keys still to visit and the errs collected. all, seen, visited,
\* gerr, gidx, entries, utyp and xit are history: the map's keys, the items
\* dispatched, the keys visited, the first error an item was to report and its
\* index, each map entry returned from with the error it was to report, the
\* type of the item the default case met, and whether an Exit Action ran.
Frame(kind, n, keys, key, depth) ==
  [kind |-> kind, n |-> n, i |-> 0, keys |-> keys, all |-> keys, key |-> key, errs |-> <<>>,
   fin |-> FALSE, res |-> NilErr, depth |-> depth,
   seen |-> <<>>, visited |-> <<>>, gerr |-> NilErr, gidx |-> 0, entries |-> <<>>,
   utyp |-> "", xit |-> FALSE]

Top(stk) == stk[Len(stk)]
Pop(stk) == SubSeq(stk, 1, Len(stk) - 1)
SetTop(stk, f) == [stk EXCEPT ![Len(stk)] = f]

\* The test that ends an iteration of Exec's loop: if e != nil { return e },
\* or the return of a case that returns by itself.
EndOfCase(f, e1, ret, val) ==
  [f EXCEPT !.fin = ret \/ e1 # NilErr, !.res = IF ret THEN val ELSE e1]

\* History: the first error an item of the list was to report.
Note(f, g) ==
  IF f.gerr = NilErr /\ g # NilErr THEN [f EXCEPT !.gerr = g, !.gidx = f.i] ELSE f
\* NestedCase with the nested dispatch's error not kept in e.
NestedCase_ErrorLost(f, e1) == EndOfCase(f, NilErr, FALSE, NilErr)

\* case []interface{} and case map[string]interface{} in the list that holds
\* them: e is what the nested dispatch returned.
NestedCase(f, e1) == EndOfCase(f, e1, FALSE, NilErr)
\* MapEntry keeping only the first failing entry.
MapEntry_FirstOnly(f, name, e1) ==
  [f EXCEPT !.errs = IF e1 # NilErr /\ @ = <<>> THEN ErrorsAppend(@, <<ErrorfExec(name, e1)>>) ELSE @]

\* The body of the loop over a map, after Exec(recall)(app) returned e1.
MapEntry(f, name, e1) ==
  [f EXCEPT !.errs = IF e1 # NilErr THEN ErrorsAppend(@, <<ErrorfExec(name, e1)>>) ELSE @]

\* After the loop over a map: if errs.IsError() { e = errs.ToError() }
MapEnd(f) == IF IsError(f.errs) THEN ToError(f.errs) ELSE NilErr

\* History: the error a map is to report for the entries visited, each with
\* the error it was to report: nil if none failed, else the failing entries'
\* messages, each naming its key, joined in the order visited.
RECURSIVE Failing(_)
Failing(entries) ==
  IF entries = <<>> THEN <<>>
  ELSE IF entries[1].err # NilErr
       THEN <<NewError(FmtErrExec(entries[1].key, Msg(entries[1].err)))>> \o Failing(Tail(entries))
       ELSE Failing(Tail(entries))

MapYield(entries) ==
  IF Failing(entries) = <<>> THEN NilErr
  ELSE NewError(Join([j \in 1..Len(Failing(entries)) |-> Msg(Failing(entries)[j])]))

RECURSIVE Unwind(_, _)
\* Returns from every Exec call that has ended, innermost first, each handing
\* its error to the case of its caller: the stack left, the calls returned
\* and, once the outermost has returned, its error.
Unwind(stk, rs) ==
  IF stk = <<>> THEN [stack |-> stk, rets |-> rs, done |-> TRUE, e |-> NilErr]
  ELSE
    LET f == Top(stk)
        ended == IF f.kind = "list" THEN f.fin \/ f.i = f.n ELSE f.keys = {}
        r == IF f.kind = "list" THEN f
             ELSE [f EXCEPT !.res = MapEnd(f), !.gerr = MapYield(f.entries)]
        rest == Pop(stk)
    IN  IF ~ended THEN [stack |-> stk, rets |-> rs, done |-> FALSE, e |-> NilErr]
        ELSE IF rest = <<>>
             THEN [stack |-> rest, rets |-> rs \cup {r}, done |-> TRUE, e |-> r.res]
        ELSE
          LET p == Top(rest)
              q == IF p.kind = "list"
                   THEN Note(NestedCase(p, r.res), r.gerr)
                   ELSE [MapEntry(p, r.key, r.res) EXCEPT
                           !.entries = Append(@, [key |-> r.key, err |-> r.gerr])]
          IN  Unwind(SetTop(rest, q), rs \cup {r})

\* The item dispatched next in the innermost call: the next of a list, or any
\* key left of a map, whose entry runs as Exec(recall)(app).
Enter(stk, name) ==
  LET f == Top(stk)
  IN  IF f.kind = "map"
      THEN Append(SetTop(stk, [f EXCEPT !.keys = @ \ {name}, !.visited = Append(@, name)]),
                  [Frame("list", 1, {}, name, f.depth) EXCEPT !.i = 1, !.seen = <<1>>])
      ELSE SetTop(stk, [f EXCEPT !.i = @ + 1, !.seen = Append(@, f.i + 1)])

\* The end of the case of a dispatched item that is no list and no map.
Leave(stk, item, out) ==
  SetTop(stk, [Note(EndOfCase(Top(stk), out.e, out.ret, out.val), Yield(item)) EXCEPT
                 !.utyp = IF item.kind = "unknown" THEN item.typ ELSE @,
                 !.xit = @ \/ item.sub = "Exit"])

\* --------------------------------------------------------------- lifecycle

None == <<>>
Some(v) == <<v>>

AddEvent(evs, t) == IF evs # <<>> /\ evs[Len(evs)] = t THEN evs ELSE Append(evs, t)

\* Strings of the descriptor are sequences of tokens: <<>> is "".
Str(t) == <<t>>
FmtID == Str("com.github.gtkool4.default.%s.%s")
FmtTitle == Str("%s/%s")
FmtTitleTest == Str("go test %s")

\* packageName(): the repository and the package of the caller.
PackageName == [repo |-> "repo", packag |-> "packag"]

\* fmt.Sprintf(format, repo, packag)
Sprintf(format, repo, packag) == format \o <<repo, packag>>

RECURSIVE firstNonEmpty(_)
firstNonEmpty(list) ==
  IF list = <<>> THEN <<>>
  ELSE IF list[1] # <<>> THEN list[1] ELSE firstNonEmpty(Tail(list))

\* The zero value of App: &App{}
ZeroApp ==
  [ID |-> <<>>, Title |-> <<>>, Width |-> 0, Height |-> 0, Headless |-> FALSE,
   GuessName |-> FALSE, FmtID |-> <<>>, FmtTitle |-> <<>>,
   OnInit |-> FALSE, OnRun |-> FALSE, OnStop |-> FALSE,
   App |-> NilApp, Win |-> NilWin, exitCode |-> 0]

\* A Param that acts on the descriptor alone, as a value.
Param(sub, w, h, str) == [sub |-> sub, w |-> w, h |-> h, str |-> str]
SetSizeP(w, h) == Param("SetSize", w, h, <<>>)
SetStr(sub, str) == Param(sub, 0, 0, str)
SetFlag(sub) == Param(sub, 0, 0, <<>>)

\* What each Param does to the descriptor. MoreParams is the custom Param of
\* the examples.
RECURSIVE ApplyParam(_, _)
ApplyParam(a, p) ==
  CASE p.sub = "SetHeadless" -> [a EXCEPT !.Headless = TRUE]
    [] p.sub = "SetSize" -> [a EXCEPT !.Width = p.w, !.Height = p.h]
    [] p.sub = "SetTitle" -> [a EXCEPT !.Title = p.str]
    [] p.sub = "SetID" -> [a EXCEPT !.ID = p.str]
    [] p.sub = "SetFmtTitle" -> [a EXCEPT !.FmtTitle = p.str, !.GuessName = TRUE]
    [] p.sub = "SetFmtTitleTest" -> ApplyParam(a, SetStr("SetFmtTitle", FmtTitleTest))
    [] p.sub = "SetFmtID" -> [a EXCEPT !.FmtID = p.str, !.GuessName = TRUE]
    [] p.sub = "SetGuessName" -> [a EXCEPT !.GuessName = TRUE]
    [] p.sub = "SetOnInit" -> [a EXCEPT !.OnInit = TRUE]
    [] p.sub = "SetOnRun" -> [a EXCEPT !.OnRun = TRUE]
    [] p.sub = "SetOnStop" -> [a EXCEPT !.OnStop = TRUE]
    [] p.sub = "MoreParams" ->
         [a EXCEPT !.ID = Str("com.github.gtkool4.grun.example3"),
                   !.Title = Str("Window Title"), !.Width = 400, !.Height = 200,
                   !.OnInit = TRUE, !.OnRun = TRUE, !.OnStop = TRUE,
                   !.FmtID = FmtID, !.FmtTitle = Str("go test %s"), !.GuessName = TRUE]

RECURSIVE AppSet(_, _)
\* App.Set: the Params applied in order.
AppSet(a, params) ==
  IF params = <<>> THEN a ELSE AppSet(ApplyParam(a, Head(params)), Tail(params))

\* New
New(params) == AppSet(ZeroApp, params)

\* NewSized with the size set after the Params.
NewSized_SizeLast(w, h, params) ==
  [AppSet(ZeroApp, params) EXCEPT !.Width = w, !.Height = h]

\* NewSized
NewSized(w, h, params) == AppSet([ZeroApp EXCEPT !.Width = w, !.Height = h], params)

NewTiny(params) == NewSized(400, 200, params)
NewSmall(params) == NewSized(600, 400, params)
NewMedium(params) == NewSized(800, 600, params)
NewLarge(params) == NewSized(1000, 800, params)

\* The descriptors the examples build, before Run: App, NewSized(400, 200, ...),
\* MoreAppFields, New(MoreParams), NewMedium(SetGuessName()) and
\* New(SetFmtTitleTest(), SetHeadless()).
Descriptors ==
  { [ZeroApp EXCEPT !.ID = Str("com.github.gtkool4.grun.example"),
                    !.Title = Str("Basic Application"),
                    !.Width = 400, !.Height = 200, !.OnRun = TRUE],
    NewSized(400, 200, <<SetStr("SetTitle", Str("Basic Application")),
                         SetStr("SetID", Str("com.github.gtkool4.grun.example"))>>),
    [ZeroApp EXCEPT !.ID = Str("com.github.gtkool4.grun.example2"), !.Headless = TRUE,
                    !.OnInit = TRUE, !.OnStop = TRUE],
    New(<<SetFlag("MoreParams")>>),
    NewMedium(<<SetFlag("SetGuessName")>>),
    New(<<SetFlag("SetFmtTitleTest"), SetFlag("SetHeadless")>>) }

\* No constructor call on record.
NoCall == [ctor |-> "", w |-> 0, h |-> 0, params |-> <<>>]

\* The state around the descriptor before Run.
Fresh ==
  /\ gtk = [quit |-> FALSE, held |-> FALSE]
  /\ win = NoWindow
  /\ timers = {}
  /\ ntimers = 0
  /\ left = MaxCalls
  /\ calls = <<>>
  /\ stack = <<>>
  /\ pend = NoItem
  /\ e = NilErr
  /\ exitGtk = None
  /\ result = None
  /\ panicked = FALSE
  /\ rets = {}
  /\ events = <<>>
  /\ nw = 0
  /\ packed = "none"
  /\ atActivate = None
  /\ exits = <<>>
  /\ got = NoGot

Init ==
  /\ pc = "idle"
  /\ app \in Descriptors
  /\ Fresh
  /\ errs = <<>> /\ given = <<>> /\ made = NoCall

\* The variables an Action can change take their values from s.
Becomes(s) ==
  /\ app' = s.app
  /\ gtk' = s.gtk
  /\ win' = s.win
  /\ timers' = s.timers
  /\ ntimers' = s.ntimers
  /\ nw' = s.nw

\* The dispatch goes on, or Exec(calls...)(app) has returned into Run's e and
\* the activate handler is over.
Goes(u) ==
  /\ stack' = u.stack
  /\ rets' = u.rets
  /\ e' = IF u.done THEN u.e ELSE e
  /\ pc' = IF u.done THEN "loop" ELSE "exec"

\* Set(params...), New(params...): Params applied before Run.
Set ==
  /\ UNCHANGED <<exits, lib>>
  /\ got' = NoGot
  /\ pc = "idle" /\ ~panicked /\ left > 0
  /\ left' = left - 1
  /\ \E param \in {"SetHeadless", "ExitAfter"}, c \in TimerCodes :
       \/ /\ param = "SetHeadless"
          /\ Becomes(SetHeadless(World))
       \/ /\ param = "ExitAfter"
          /\ Becomes(ExitAfter(World, c))
  /\ UNCHANGED <<pc, calls, stack, pend, e, exitGtk, result, panicked, events,
                 atActivate>>
  /\ rets' = {} /\ packed' = "none"
\* RunCalls with OnRun put after the arguments.
RunCalls_OnRunLast(a, args) == args \o (IF a.OnRun THEN <<"OnRun">> ELSE <<>>)

\* Run puts OnRun before its arguments.
RunCalls(a, args) == (IF a.OnRun THEN <<"OnRun">> ELSE <<>>) \o args

\* App.Init: the guessed names and the gtk.Application. An empty Title makes
\* Init assign FmtTitle.
AppInit(a) ==
  LET n == PackageName
      b == IF a.GuessName /\ a.ID = <<>>
           THEN [a EXCEPT !.ID = Sprintf(firstNonEmpty(<<a.FmtID, FmtID>>), n.repo, n.packag)]
           ELSE a
      c == IF a.GuessName /\ a.Title = <<>>
           THEN [b EXCEPT !.FmtTitle =
                   Sprintf(firstNonEmpty(<<a.FmtTitle, FmtTitle>>), n.repo, n.packag)]
           ELSE b
  IN  [c EXCEPT !.App = TheApp]

\* Run up to the call of app.App.Run: the calls are queued and Init creates
\* the gtk.Application and connects the callbacks.
Run ==
  /\ pc = "idle" /\ ~panicked
  /\ \E n \in 0..left :
       /\ Len(RunCalls(app, [k \in 1..n |-> "arg"])) <= left
       /\ calls' = RunCalls(app, [k \in 1..n |-> "arg"])
       /\ left' = left - Len(RunCalls(app, [k \in 1..n |-> "arg"]))
  /\ app' = AppInit(app)
  /\ gtk' = [gtk EXCEPT !.quit = FALSE, !.held = FALSE]
  /\ e' = NilErr
  /\ exitGtk' = None
  /\ result' = None
  /\ pc' = "init"
  /\ rets' = {} /\ events' = <<>> /\ nw' = 0 /\ atActivate' = None /\ packed' = "none"
  /\ exits' = <<>> /\ got' = NoGot
  /\ UNCHANGED <<win, timers, ntimers, stack, pend, panicked, lib>>

\* app.App.Run starts: gtk emits startup, which runs OnInit. An application
\* asked to quit before it runs returns at once.
Startup ==
  /\ UNCHANGED <<exits, lib>>
  /\ got' = NoGot
  /\ pc = "init" /\ ~panicked
  /\ IF gtk.quit
     THEN pc' = "exited" /\ exitGtk' = Some(1) /\ UNCHANGED events
     ELSE /\ pc' = "started" /\ UNCHANGED exitGtk
          /\ events' = IF app.OnInit THEN AddEvent(events, "OnInit") ELSE events
  /\ UNCHANGED <<app, gtk, win, timers, ntimers, left, calls, stack, pend, e, result,
                 panicked, nw, atActivate>>
  /\ rets' = {} /\ packed' = "none"

\* gtk emits activate: the handler Run gave to Init starts Exec(calls...)(app).
Activate ==
  /\ UNCHANGED <<exits, lib>>
  /\ got' = NoGot
  /\ pc = "started" /\ ~panicked
  /\ atActivate' = Some([Headless |-> app.Headless, Win |-> app.Win])
  /\ Goes(Unwind(<<Frame("list", Len(calls), {}, NoKey, 1)>>, {}))
  /\ packed' = "none"
  /\ UNCHANGED <<app, gtk, win, timers, ntimers, left, calls, pend, exitGtk, result,
                 panicked, events, nw>>

\* The shapes the next item can have: a list or a map as long as the bound
\* allows its items.
Offered ==
  Leaves \cup {l \in Lists : l.n <= left} \cup {m \in Maps : Cardinality(m.keys) <= left}

\* One iteration of Exec's loop, up to the call() of a widget Action whose
\* window Pack has just created.
Dispatch ==
  /\ UNCHANGED lib
  /\ pc = "exec" /\ ~panicked /\ pend = NoItem
  /\ \E name \in (IF Top(stack).kind = "map" THEN Top(stack).keys ELSE {NoKey}) :
       LET stk == Enter(stack, name)
       IN  /\ events' = AddEvent(events, calls[stk[1].i])
           /\ \E item \in Offered :
                CASE item.kind = "list" ->
                       /\ Goes(Unwind(Append(stk, Frame("list", item.n, {}, NoKey, Top(stk).depth + 1)), {}))
                       /\ packed' = "none" /\ left' = left - item.n
                       /\ UNCHANGED <<app, gtk, win, timers, ntimers, nw, pend, exits>>
                       /\ got' = NoGot
                  [] item.kind = "map" ->
                       /\ Goes(Unwind(Append(stk, Frame("map", 0, item.keys, NoKey, Top(stk).depth + 1)), {}))
                       /\ packed' = "none" /\ left' = left - Cardinality(item.keys)
                       /\ UNCHANGED <<app, gtk, win, timers, ntimers, nw, pend, exits>>
                       /\ got' = NoGot
                  [] item.kind \in PackKinds /\ ~PackDrops(app) ->
                       /\ Becomes(NewWindow(World))
                       /\ pend' = item
                       /\ stack' = stk
                       /\ packed' = "window"
                       /\ rets' = {}
                       /\ UNCHANGED <<pc, e, left, exits>>
                       /\ got' = NoGot
                  [] OTHER ->
                       LET out == IF item.kind \in PackKinds
                                  THEN Dropped(World, item) ELSE Headless(World, item)
                       IN  /\ Becomes(out.s)
                           /\ Goes(Unwind(Leave(stk, item, out), {}))
                           /\ packed' = IF item.kind \in PackKinds THEN "dropped" ELSE "none"
                           /\ exits' = IF item.sub = "Exit" THEN Append(exits, item.code) ELSE exits
                           /\ got' = Got(item)
                           /\ UNCHANGED <<pend, left>>
  /\ UNCHANGED <<calls, exitGtk, result, panicked, atActivate>>

\* Pack from call() on, and the rest of the iteration.
PackCall ==
  /\ UNCHANGED <<exits, lib>>
  /\ got' = Got(pend)
  /\ pc = "exec" /\ ~panicked /\ pend # NoItem
  /\ LET out == AfterPack(PackWidget(World, Packed(pend)), pend)
     IN  /\ Becomes(out.s)
         /\ Goes(Unwind(Leave(stack, pend, out), {}))
  /\ pend' = NoItem
  /\ packed' = IF Packed(pend) = NilW THEN "closed" ELSE "shown"
  /\ UNCHANGED <<left, calls, exitGtk, result, panicked, events, atActivate>>

\* The user closes the window: the application no longer holds one.
CloseWindow ==
  /\ UNCHANGED <<exits, lib>>
  /\ got' = NoGot
  /\ pc = "loop" /\ ~panicked /\ gtk.held /\ ~gtk.quit
  /\ win' = [win EXCEPT !.open = FALSE]
  /\ gtk' = [gtk EXCEPT !.held = FALSE]
  /\ UNCHANGED <<pc, app, timers, ntimers, left, calls, stack, pend, e, exitGtk,
                 result, panicked, events, nw, atActivate>>
  /\ rets' = {} /\ packed' = "none"

\* The loop ends once quit is requested or no window is open: gtk emits
\* shutdown, which runs OnStop, and app.App.Run returns.
Shutdown ==
  /\ UNCHANGED <<exits, lib>>
  /\ got' = NoGot
  /\ pc = "loop" /\ ~panicked /\ (gtk.quit \/ ~gtk.held)
  /\ events' = IF app.OnStop THEN AddEvent(events, "OnStop") ELSE events
  /\ \E c \in GtkCodes : exitGtk' = Some(c)
  /\ pc' = "exited"
  /\ UNCHANGED <<app, gtk, win, timers, ntimers, left, calls, stack, pend, e, result,
                 panicked, nw, atActivate>>
  /\ rets' = {} /\ packed' = "none"
\* Resolve with the exit code looked at before the error.
Resolve_CodeFirst(e1, exitCode) ==
  IF exitCode # 0 THEN "go" ELSE IF e1 # NilErr THEN "fail" ELSE "gtk"

\* Which value Run returns: 1 on an error, the Go exit code when it is not 0,
\* else what gtk returned.
Resolve(e1, exitCode) ==
  IF e1 # NilErr THEN "fail" ELSE IF exitCode # 0 THEN "go" ELSE "gtk"

\* Run after app.App.Run returned, up to its first reading of ExitCode().
RunCheck ==
  /\ UNCHANGED <<exits, lib>>
  /\ got' = NoGot
  /\ pc = "exited" /\ ~panicked
  /\ LET how == Resolve(e, app.exitCode)
     IN  /\ pc' = IF how = "go" THEN "ret309" ELSE "returned"
         /\ result' = CASE how = "fail" -> Some(1)
                        [] how = "go" -> result
                        [] OTHER -> exitGtk
  /\ UNCHANGED <<app, gtk, win, timers, ntimers, left, calls, stack, pend, e, exitGtk,
                 panicked, events, nw, atActivate>>
  /\ rets' = {} /\ packed' = "none"

\* return app.ExitCode()
RunExitCode ==
  /\ UNCHANGED <<exits, lib>>
  /\ got' = NoGot
  /\ pc = "ret309" /\ ~panicked
  /\ result' = Some(app.exitCode)
  /\ pc' = "returned"
  /\ UNCHANGED <<app, gtk, win, timers, ntimers, left, calls, stack, pend, e, exitGtk,
                 panicked, events, nw, atActivate>>
  /\ rets' = {} /\ packed' = "none"

\* The timer's goroutine runs app.Exit: app.exitCode = exitCode ...
TimerExit ==
  /\ UNCHANGED <<exits, lib>>
  /\ got' = NoGot
  /\ ~panicked
  /\ \E t \in timers :
       /\ t.step = "armed"
       /\ app' = [app EXCEPT !.exitCode = t.code]
       /\ timers' = (timers \ {t}) \cup {[t EXCEPT !.step = "quit"]}
  /\ UNCHANGED <<pc, gtk, win, ntimers, left, calls, stack, pend, e, exitGtk, result,
                 panicked, events, nw, atActivate>>
  /\ rets' = {} /\ packed' = "none"

\* ... and app.App.Quit(), which needs the gtk.Application to exist.
TimerQuit ==
  /\ UNCHANGED <<exits, lib>>
  /\ got' = NoGot
  /\ ~panicked
  /\ \E t \in timers :
       /\ t.step = "quit"
       /\ timers' = timers \ {t}
       /\ panicked' = (app.App = NilApp)
       /\ gtk' = IF app.App # NilApp /\ pc \in {"init", "started", "exec", "loop"}
                 THEN [gtk EXCEPT !.quit = TRUE] ELSE gtk
  /\ UNCHANGED <<pc, app, win, ntimers, left, calls, stack, pend, e, exitGtk, result,
                 events, nw, atActivate>>
  /\ rets' = {} /\ packed' = "none"

Next ==
  \/ Set
  \/ Run
  \/ Startup
  \/ Activate
  \/ Dispatch
  \/ PackCall
  \/ CloseWindow
  \/ Shutdown
  \/ RunCheck
  \/ RunExitCode
  \/ TimerExit
  \/ TimerQuit

Spec == Init /\ [][Next]_vars

\* ------------------------------------------------------------ constructors

\* The Params given to the constructors.
ParamsNew ==
  { SetSizeP(300, 100), SetSizeP(0, 0),
    SetStr("SetTitle", Str("Window Title")), SetStr("SetID", Str("org.gtk.example")),
    SetFlag("SetGuessName"), SetStr("SetFmtID", Str("%s.%s")), SetStr("SetFmtID", <<>>),
    SetStr("SetFmtTitle", Str("%s %s")), SetFlag("SetFmtTitleTest"), SetFlag("SetHeadless") }

ParamLists == UNION { [1..n -> ParamsNew] : n \in 0..MaxParams }

Presets == {"NewTiny", "NewSmall", "NewMedium", "NewLarge"}

\* The constructor calls: New, NewSized(640, 480, ...) and the size presets.
Calls ==
  { [ctor |-> c, w |-> IF c = "NewSized" THEN 640 ELSE 0,
     h |-> IF c = "NewSized" THEN 480 ELSE 0, params |-> ps] :
      c \in {"New", "NewSized"} \cup Presets, ps \in ParamLists }

\* The descriptor a constructor call returns.
Built(c) ==
  CASE c.ctor = "New" -> New(c.params)
    [] c.ctor = "NewSized" -> NewSized(c.w, c.h, c.params)
    [] c.ctor = "NewTiny" -> NewTiny(c.params)
    [] c.ctor = "NewSmall" -> NewSmall(c.params)
    [] c.ctor = "NewMedium" -> NewMedium(c.params)
    [] c.ctor = "NewLarge" -> NewLarge(c.params)

\* No descriptor yet.
InitNew ==
  /\ pc = "new"
  /\ app = ZeroApp
  /\ Fresh
  /\ errs = <<>> /\ given = <<>> /\ made = NoCall

\* A constructor is called with its Params.
Construct ==
  /\ pc = "new"
  /\ \E c \in Calls :
       /\ made' = c
       /\ app' = Built(c)
  /\ pc' = "idle"
  /\ UNCHANGED <<gtk, win, timers, ntimers, left, calls, stack, pend, e, exitGtk, result,
                 panicked, rets, events, nw, packed, atActivate, exits, got, errs, given>>

NextNew ==
  \/ Construct
  \/ Run

SpecNew == InitNew /\ [][NextNew]_vars

\* ------------------------------------------------------------- error lists

\* errors.New("fail"), errors.New("stop"), errors.New("")
ErrValues == { NewError(<<"fail">>), NewError(<<"stop">>), NewError(<<>>) }

\* The arguments of one Append: more ...error
Mores == UNION { [1..n -> ErrValues] : n \in 0..MaxMore }

\* var errs Errors
InitErrors ==
  /\ pc = "idle"
  /\ app = ZeroApp
  /\ Fresh
  /\ errs = <<>> /\ given = <<>> /\ made = NoCall

\* errs.Append(more...)
AppendErrors ==
  /\ Len(given) < MaxAppends
  /\ \E more \in Mores :
       /\ errs' = ErrorsAppend(errs, more)
       /\ given' = Append(given, more)
  /\ UNCHANGED <<pc, app, gtk, win, timers, ntimers, left, calls, stack, pend, e, exitGtk,
                 result, panicked, rets, events, nw, packed, atActivate, exits, got, made>>

NextErrors == AppendErrors

SpecErrors == InitErrors /\ [][NextErrors]_vars

\* The toolkit's steps, the timer's and the program's own: what happens with
\* no event from outside (the user closing the window is one).
Internal ==
  \/ Startup \/ Activate \/ Dispatch \/ PackCall \/ Shutdown
  \/ RunCheck \/ RunExitCode \/ TimerExit \/ TimerQuit

\* ------------------------------------------------------------------ claims

Upto(n) == [k \in 1..n |-> k]
Dispatched == pc \in {"loop", "exited", "ret309", "returned"}

\* C1: when an item of an ordered list yields a non-nil error (the error value
\* an Action returns, the type-unknown error, or the error of a nested list or
\* map), no later item of that list is invoked and the Exec call of the list
\* returns that very error, through every enclosing list up to Run's e.
C1_StopOnFirstError ==
  /\ \A r \in rets :
       (r.kind = "list" /\ r.gerr # NilErr) =>
         /\ r.res = r.gerr
         /\ r.seen = Upto(r.gidx)
         /\ (r.depth = 1 => e = r.gerr)
  /\ \A k \in 1..Len(stack) :
       stack[k].kind = "list" => stack[k].gerr = NilErr

\* C1 witness: an item of a nested list has returned an error with an item
\* left after it, and the list given to Run has returned that error to Run.
C1_Witness ==
  \E r1 \in rets, r2 \in rets :
    /\ r1.depth = 1 /\ r2.depth = 2 /\ r2.kind = "list" /\ r2.key = NoKey
    /\ r2.gerr # NilErr /\ r2.gidx < r2.n
    /\ r1.gerr = r2.gerr
    /\ e = r2.gerr /\ pc = "loop"

\* C2: every list given to Exec has each item invoked exactly once, in order,
\* up to and including the first item that yields a non-nil error, or to the
\* end of the list if none does.
C2_AllItemsInOrder ==
  \A r \in rets :
    r.kind = "list" => r.seen = Upto(IF r.gerr # NilErr THEN r.gidx ELSE r.n)

\* C3: with no error from the Actions, Run returns gtk's exit code if it is
\* positive, else the stored Go exit code if it is positive, else gtk's value
\* (stated where only Exit stores the code: no ExitAfter timer was started).
C3_ExitCodeResolution ==
  (pc = "returned" /\ e = NilErr /\ ntimers = 0) =>
    result = (IF exitGtk[1] > 0 THEN exitGtk
              ELSE IF app.exitCode > 0 THEN Some(app.exitCode) ELSE exitGtk)

\* C4: if the dispatch of Run's Actions ended with a non-nil error, Run returns
\* exactly 1, whatever exit code is stored and whatever gtk returned.
C4_ErrorReturnsOne ==
  (pc = "returned" /\ e # NilErr) => result = Some(1)

\* C4 witness: Run has returned after an error, with a positive exit code
\* stored and a positive code from gtk.
C4_Witness ==
  pc = "returned" /\ e # NilErr /\ app.exitCode = 42 /\ exitGtk = Some(2)

\* C5: NewWindow is invoked at most once in a run.
C5_AtMostOneWindow == nw <= 1

\* C6: once the window is shown with its widget, no step changes app.Win or
\* the window's child or creates a window.
C6_FirstWidgetOnly ==
  [][win.shown => (app'.Win = app.Win /\ win'.child = win.child /\ win'.shown /\ nw' = nw)]_vars

\* C6 witness: a widget-producing Action has just run with the window shown
\* and Headless not set, and its widget was dropped.
C6_Witness ==
  packed = "dropped" /\ win.shown /\ ~app.Headless

\* C7: if Headless is set when the Actions are dispatched, NewWindow is never
\* invoked and app.Win stays nil.
C7_Headless ==
  (atActivate # None /\ atActivate[1].Headless) => (nw = 0 /\ app.Win = NilWin)

\* C7 witness: under Headless a widget-producing Action has just run and its
\* widget was dropped.
C7_Witness ==
  atActivate # None /\ atActivate[1].Headless /\ packed = "dropped"

Range(f) == {f[k] : k \in DOMAIN f}

\* C8: a map's dispatch visits every entry exactly once and returns nil if no
\* entry failed, else one error made of a message for each failing entry, and
\* only for those, that names the entry's key.
C8_MapCollects ==
  \A r \in rets :
    r.kind = "map" =>
      /\ Range(r.visited) = r.all /\ Len(r.visited) = Cardinality(r.all)
      /\ [k \in 1..Len(r.entries) |-> r.entries[k].key] = r.visited
      /\ (r.res = NilErr <=> \A k \in 1..Len(r.entries) : r.entries[k].err = NilErr)
      /\ r.res = MapYield(r.entries)

\* C8 witness: a map of two entries has returned, the first visited failed and
\* the second did not.
C8_Witness ==
  \E r \in rets :
    /\ r.kind = "map" /\ r.all = Keys /\ Len(r.entries) = 2
    /\ r.entries[1].err # NilErr /\ r.entries[2].err = NilErr
    /\ r.res = NewError(FmtErrExec(r.entries[1].key, Msg(r.entries[1].err)))

Rank(t) == CASE t = "OnInit" -> 1 [] t = "OnRun" -> 2 [] t = "arg" -> 3 [] t = "OnStop" -> 4

\* C9: the callbacks of a run happen in the order OnInit, the Actions of
\* OnRun, the Actions given to Run, OnStop; no Action is invoked before
\* activate, and OnStop only after the dispatch has finished.
C9_LifecycleOrder ==
  /\ \A j \in 1..Len(events), k \in 1..Len(events) : j < k => Rank(events[j]) < Rank(events[k])
  /\ (pc \in {"idle", "init", "started"} => Range(events) \subseteq {"OnInit"})
  /\ ("OnStop" \in Range(events) => (stack = <<>> /\ pc \in {"exited", "ret309", "returned"}))

\* C9 witness: all four have happened.
C9_Witness == events = <<"OnInit", "OnRun", "arg", "OnStop">>

\* C10: when the dispatch has ended with a non-nil error, the loop stops and
\* Run returns with no event from outside: until Run has returned, a step of
\* the toolkit, of the timer or of Run itself can always be taken.
C10_ErrorClosesApp ==
  (Dispatched /\ e # NilErr /\ pc # "returned") => ENABLED Internal

\* The message of e holds the type-unknown text.
TypeUnknown(e1) ==
  e1 # NilErr /\ \E k \in 1..Len(Msg(e1)) : Msg(e1)[k] = FmtErrTypeUnknown("")[1]

\* C11: when a list meets an item of a shape Exec does not handle (nil
\* included), the list's dispatch returns the type-unknown error naming the
\* item's type, the items before it have been invoked and none after it, the
\* error reaches Run through the enclosing lists, and a Run whose dispatch
\* ended with a type-unknown error returns 1.
C11_UnknownShape ==
  /\ \A r \in rets :
       (r.kind = "list" /\ r.utyp # "") =>
         /\ r.res = NewError(FmtErrTypeUnknown(r.utyp))
         /\ r.seen = Upto(r.i)
         /\ (r.depth = 1 => e = r.res)
  /\ \A k \in 1..Len(stack) : stack[k].utyp = ""
  /\ (pc = "returned" /\ TypeUnknown(e)) => result = Some(1)

\* C11 witness: the list given to Run has met a nil item as its second of
\* three, after an item that was invoked, and has returned the error to Run.
C11_Witness ==
  \E r \in rets :
    /\ r.depth = 1 /\ r.utyp = "<nil>" /\ r.i = 2 /\ r.n = 3
    /\ e = NewError(FmtErrTypeUnknown("<nil>")) /\ pc = "loop"

\* C12: a Run whose Actions request exit with Exit(c), c positive, with no
\* error from the Actions, no ExitAfter timer and 0 from gtk's loop, returns
\* c; of several Exit requests in the run the last one's code counts.
C12_ExplicitExit ==
  (/\ pc = "returned" /\ e = NilErr /\ ntimers = 0 /\ exitGtk = Some(0)
   /\ exits # <<>> /\ exits[Len(exits)] > 0)
    => result = Some(exits[Len(exits)])

\* C12 witness: Run has returned 42 after Exit(-1) and then Exit(42).
C12_Witness ==
  /\ pc = "returned" /\ e = NilErr /\ ntimers = 0 /\ exitGtk = Some(0)
  /\ exits = <<-1, 42>> /\ result = Some(42)

\* C13: the timer's callback never has its write of app.exitCode pending
\* while Run, back from gtk's loop, is about to read app.exitCode.
C13_NoRaceOnExitCode ==
  ((pc = "exited" /\ e = NilErr) \/ pc = "ret309") =>
    \A t \in timers : t.step # "armed"

\* C14: whenever a timer's callback is at its call of app.App.Quit(), the
\* gtk.Application exists, and no callback has dereferenced a nil one.
C14_TimerFindsApp ==
  /\ \A t \in timers : t.step = "quit" => app.App # NilApp
  /\ ~panicked

\* C15: once app.App or app.Win holds an object, no step sets it to nil or
\* to another object.
C15_HandlesWriteOnce ==
  [][/\ app.App # NilApp => app'.App = app.App
     /\ app.Win # NilWin => app'.Win = app.Win]_vars

\* The types the package documentation lists as usable with Run or Exec, as
\* %T prints them.
Documented ==
  { "func() gtk.Widgetter", "func() (gtk.Widgetter, error)",
    "func() (gtk.Widgetter, grun.Errors)", "func(*grun.App) gtk.Widgetter",
    "func(*grun.App) (gtk.Widgetter, error)",
    "func()", "func() error", "func(*grun.App)", "func(*grun.App) error",
    "func() func(*grun.App)",
    "[]interface {}", "map[string]interface {}",
    "string", "func() string", "func(*grun.App) string" }

\* C17: no Exec call meets in its default case an item of a type the package
\* documentation lists.
C17_DocumentedShapes ==
  \A r \in rets : r.utyp \notin Documented

\* C16: when Init runs with GuessName set, ID and Title are not empty after
\* it, and an ID or a Title that was not empty is unchanged.
C16_NameGuessing ==
  [][(pc = "idle" /\ pc' = "init" /\ app.GuessName) =>
       /\ app'.ID # <<>> /\ app'.Title # <<>>
       /\ app.ID # <<>> => app'.ID = app.ID
       /\ app.Title # <<>> => app'.Title = app.Title]_vars

\* C18: IsError() is true exactly when some Append was given an error, and
\* Error() is the empty string while none was.
C18_ErrorsEmptiness ==
  /\ IsError(errs) <=> \E k \in 1..Len(given) : given[k] # <<>>
  /\ (\A k \in 1..Len(given) : given[k] = <<>>) => ErrorsError(errs) = <<>>

\* C18 witness: after an Append of nothing and an Append of an error the list
\* is an error.
C18_Witness ==
  Len(given) = 2 /\ given[1] = <<>> /\ given[2] = <<NewError(<<"fail">>)>> /\ IsError(errs)

RECURSIVE Lines(_)
\* The messages of the errors given to the Appends, in the order given.
Lines(g) ==
  IF g = <<>> THEN <<>>
  ELSE [k \in 1..Len(g[1]) |-> Msg(g[1][k])] \o Lines(Tail(g))

RECURSIVE Text(_, _)
\* The first n lines, a newline between each two.
Text(lines, n) ==
  IF n = 0 THEN <<>>
  ELSE IF n = 1 THEN lines[1]
  ELSE Text(lines, n - 1) \o <<"\n">> \o lines[n]

\* C19: Error() and ToError().Error() are the messages of the errors appended,
\* in the order appended, joined with newlines; for one error appended, its
\* own message.
C19_ErrorsConversion ==
  /\ ErrorsError(errs) = Text(Lines(given), Len(Lines(given)))
  /\ Msg(ToError(errs)) = Text(Lines(given), Len(Lines(given)))
  /\ Len(Lines(given)) = 1 => Msg(ToError(errs)) = Lines(given)[1]

\* C19 witness: three errors appended in two calls, the last with an empty
\* message.
C19_Witness ==
  /\ given = << <<NewError(<<"fail">>)>>, <<NewError(<<"stop">>), NewError(<<>>)>> >>
  /\ Msg(ToError(errs)) = <<"fail", "\n", "stop", "\n">>

\* C20: a size preset called without Params gives a positive Width and
\* Height; its Params are applied after the preset, so the last SetSize
\* given decides the size, and without a SetSize the preset's size stays.
C20_SizePresets ==
  (pc # "new" /\ made.ctor \in Presets) =>
    LET ps == made.params
        sized == {k \in 1..Len(ps) : ps[k].sub = "SetSize"}
    IN  /\ ps = <<>> => (app.Width > 0 /\ app.Height > 0)
        /\ sized = {} => (app.Width > 0 /\ app.Height > 0)
        /\ \A k \in sized :
             (\A j \in sized : j <= k) => (app.Width = ps[k].w /\ app.Height = ps[k].h)

\* C20 witness: NewLarge() has returned a descriptor of 1000 x 800.
C20_Witness ==
  /\ pc = "idle" /\ made.ctor = "NewLarge" /\ made.params = <<>>
  /\ app.Width = 1000 /\ app.Height = 800

\* C21: when the Action invoked in a step was a func(*App) (gtk.Widgetter,
\* Errors) that returned a non-empty Errors, the Exec call of its list has
\* returned an error with the joined message, with no later item invoked.
C21_ErrorsListStops ==
  IsError(got.errs) =>
    \E r \in rets : r.kind = "list" /\ r.res = ToError(got.errs) /\ r.seen = Upto(r.i)

\* C22: the window Pack creates is not shown before call() has returned; when
\* call() gave a nil widget and the Action returned no error, the window is
\* closed, never shown, app.Win is nil, and the dispatch goes on: the next
\* item of the list is to be dispatched, or the list has ended without error.
C22_NilWidgetDropped ==
  /\ pend # NoItem => (win.open /\ ~win.shown)
  /\ (packed = "closed" /\ got = NoGot) =>
       /\ win = NoWindow /\ app.Win = NilWin
       /\ IF rets = {}
          THEN /\ pc = "exec" /\ ~Top(stack).fin /\ Top(stack).i < Top(stack).n
               /\ Top(stack).gerr = NilErr
          ELSE \E r \in rets :
                 r.kind = "list" /\ r.res = NilErr /\ r.gerr = NilErr /\ r.i = r.n

\* C22 witness: with Headless not set, the first window of the run was closed
\* for a nil widget returned with no error, and the list has an item left.
C22_Witness ==
  /\ packed = "closed" /\ got = NoGot /\ ~app.Headless /\ nw = 1 /\ app.Win = NilWin
  /\ pc = "exec" /\ rets = {} /\ Top(stack).i < Top(stack).n

\* C23: when Pack dropped the widget of an Action that returned an error,
\* the Action was invoked, its list has returned that error with no later
\* item invoked, and Run's e holds it once every enclosing list has returned.
C23_DroppedStillInvoked ==
  (packed = "dropped" /\ got.err # NilErr) =>
    /\ \E r \in rets :
         /\ r.kind = "list" /\ r.res = got.err /\ r.gerr = got.err
         /\ r.gidx = r.i /\ r.seen = Upto(r.i)
    /\ (pc = "loop" /\ \A r \in rets : r.kind = "list" /\ r.key = NoKey) => e = got.err

\* C23 witness: with the window shown, a later widget Action returned an
\* error, which has reached Run.
C23_Witness ==
  packed = "dropped" /\ got.err # NilErr /\ win.shown /\ e = got.err /\ pc = "loop"

\* C24: a list in which an Exit Action ran has every item after it invoked in
\* order, up to the first item that yields an error or to the end of the list.
C24_ExitDoesNotInterrupt ==
  \A r \in rets :
    (r.kind = "list" /\ r.xit) =>
      r.seen = Upto(IF r.gerr # NilErr THEN r.gidx ELSE r.n)

====
